---- MODULE Spec2Model ----
(***************************************************************************)
(* LinkedListPointer<ObjectType> (juce_LinkedListPointer.h): an intrusive  *)
(* singly-linked list.  A LinkedListPointer holds one raw pointer, `item`. *)
(* The list head is a LinkedListPointer owned by the caller; every node    *)
(* embeds a LinkedListPointer named nextListItem.  All the algorithms are  *)
(* methods of a LinkedListPointer, so they run on any link slot: the head  *)
(* handle, a second handle, or the nextListItem field of a node.           *)
(***************************************************************************)
EXTENDS Integers, Sequences, FiniteSets, TLC

\* ---------------------------------------------------------------- bounds
\* Node objects the caller owns when the program starts.
NumNodes == 3
\* Node objects addCopyOfList may still allocate with `new`.
MaxCopies == 2
\* The largest index passed to insertAtIndex (the smallest is -1).
MaxIndex == 2

\* ---------------------------------------------------------------- memory
\* The null pointer: a null ObjectType* and a null LinkedListPointer*.
Null == 0
\* The address of the caller's list head, a LinkedListPointer.
HeadSlot == -1
\* The address of a second LinkedListPointer the caller owns.
OtherSlot == -2

\* Addresses of node objects.  The address of node n's nextListItem field is
\* written n as well: a link slot is HeadSlot, OtherSlot or a node.
CallerNodes == 1 .. NumNodes
Nodes == 1 .. (NumNodes + MaxCopies)
Pointers == Nodes \cup {Null}

VARIABLES
    head,          \* the item field of the caller's list head
    other,         \* the item field of the caller's second handle
    nextListItem,  \* nextListItem[n]: the item field of node n's link
    allocated,     \* the node objects that exist
    value,         \* value[n]: the data members of node n
    endOfList,     \* Appender::endOfList, Null while no Appender exists
    call,          \* the last call made: method, receiver, arguments, result
    pre,           \* the memory as it was when that call was made
    appendLog,     \* the nodes appended to head, while nothing else was called
    appender,      \* what the live Appender was built on and has appended
    track          \* what the calls so far were given and have taken out

vars == <<head, other, nextListItem, allocated, value, endOfList, call, pre,
          appendLog, appender, track>>

\* The memory the methods read and write, as one value.
Mem ==
    [head |-> head, other |-> other, next |-> nextListItem,
     allocated |-> allocated, value |-> value, endOfList |-> endOfList]

\* l->item
item(m, l) ==
    IF l = HeadSlot THEN m.head
    ELSE IF l = OtherSlot THEN m.other
    ELSE m.next[l]

\* l->item = v
setItem(m, l, v) ==
    IF l = HeadSlot THEN [m EXCEPT !.head = v]
    ELSE IF l = OtherSlot THEN [m EXCEPT !.other = v]
    ELSE [m EXCEPT !.next[l] = v]

\* How a call ends: it returns, or a jassert fails, or it runs into
\* undefined behaviour.
Returned(m, r) == [mem |-> m, ret |-> r, outcome |-> "ok"]
\* jassert (condition) with a false condition: the precondition violation is
\* signalled at that line and the method goes no further.
jassertFailed(m) == [mem |-> m, ret |-> Null, outcome |-> "asserted"]
Undefined(m) == [mem |-> m, ret |-> Null, outcome |-> "undefined"]
\* operator new finds no memory: the model's pool of node objects is used up.
BadAlloc(m) == [mem |-> m, ret |-> Null, outcome |-> "bad_alloc"]

\* ------------------------------------------------------------ traversal
\* for (ObjectType* i = item; i != 0; i = i->nextListItem) *destArray++ = i;
\* the walk gives up after `fuel` nodes, where the code would loop for ever.
RECURSIVE copyToArray(_, _, _)
copyToArray(m, i, fuel) ==
    IF i = Null \/ fuel = 0 THEN <<>>
    ELSE <<i>> \o copyToArray(m, m.next[i], fuel - 1)

\* The nodes reachable from link slot l, in order.
Chain(m, l) == copyToArray(m, item(m, l), Cardinality(Nodes) + 1)
\* The nodes reachable from node pointer i, i included.
ChainFrom(m, i) == copyToArray(m, i, Cardinality(Nodes) + 1)
Range(s) == {s[k] : k \in 1 .. Len(s)}

\* getLast(): the terminal link slot of the list that starts at l.
RECURSIVE getLast(_, _)
getLast(m, l) ==
    IF item(m, l) # Null THEN getLast(m, item(m, l)) ELSE l

\* size()
RECURSIVE sizeFrom(_, _)
sizeFrom(m, i) == IF i = Null THEN 0 ELSE 1 + sizeFrom(m, m.next[i])
size(m, l) == sizeFrom(m, item(m, l))

\* operator[] with `index-- >= 0` for `--index >= 0`: one step too many.
RECURSIVE at_postDecrement(_, _, _)
at_postDecrement(m, l, index) ==
    IF index >= 0 /\ item(m, l) # Null
    THEN at_postDecrement(m, item(m, l), index - 1)
    ELSE l

\* operator[] (index): while (--index >= 0 && l->item != 0) l = next slot
RECURSIVE at(_, _, _)
at(m, l, index) ==
    IF index - 1 >= 0 /\ item(m, l) # Null
    THEN at(m, item(m, l), index - 1)
    ELSE l

\* contains (itemToLookFor)
RECURSIVE containsFrom(_, _, _)
containsFrom(m, i, itemToLookFor) ==
    IF i = Null THEN FALSE
    ELSE IF itemToLookFor = i THEN TRUE
    ELSE containsFrom(m, m.next[i], itemToLookFor)
contains(m, l, itemToLookFor) == containsFrom(m, item(m, l), itemToLookFor)

\* findPointerTo that returns the found item's own link instead of the slot
\* that points to it: `return &(l->item->nextListItem)` for `return l`.
RECURSIVE findPointerTo_returnsItsLink(_, _, _)
findPointerTo_returnsItsLink(m, l, itemToLookFor) ==
    IF item(m, l) = Null THEN Null
    ELSE IF item(m, l) = itemToLookFor THEN item(m, l)
    ELSE findPointerTo_returnsItsLink(m, item(m, l), itemToLookFor)

\* findPointerTo (itemToLookFor): the slot that points to it, or null.
RECURSIVE findPointerTo(_, _, _)
findPointerTo(m, l, itemToLookFor) ==
    IF item(m, l) = Null THEN Null
    ELSE IF item(m, l) = itemToLookFor THEN l
    ELSE findPointerTo(m, item(m, l), itemToLookFor)

\* ------------------------------------------------------------- mutators
\* insertNext with `newItem->nextListItem = item` left out.
insertNext_dropsRest(m, l, newItem) ==
    IF newItem = Null THEN jassertFailed(m)
    ELSE IF m.next[newItem] # Null THEN jassertFailed(m)
    ELSE Returned(setItem(m, l, newItem), Null)

\* insertNext with `jassert (newItem->nextListItem == 0)` left out.
insertNext_unchecked(m, l, newItem) ==
    IF newItem = Null THEN jassertFailed(m)
    ELSE LET m1 == setItem(m, newItem, item(m, l))
         IN  Returned(setItem(m1, l, newItem), Null)

\* insertNext (newItem)
insertNext(m, l, newItem) ==
    IF newItem = Null THEN jassertFailed(m)
    ELSE IF m.next[newItem] # Null THEN jassertFailed(m)
    ELSE LET m1 == setItem(m, newItem, item(m, l))   \* newItem->nextListItem = item
         IN  Returned(setItem(m1, l, newItem), Null) \* item = newItem

\* The loop of insertAtIndex with the decrement moved into the test:
\* while (--index != 0 && l->item != 0) l = next slot
RECURSIVE walkToIndex_preDecrement(_, _, _)
walkToIndex_preDecrement(m, l, index) ==
    IF index - 1 # 0 /\ item(m, l) # Null
    THEN walkToIndex_preDecrement(m, item(m, l), index - 1)
    ELSE l

\* The loop of insertAtIndex: while (index != 0 && l->item != 0) { next; --index; }
RECURSIVE walkToIndex(_, _, _)
walkToIndex(m, l, index) ==
    IF index # 0 /\ item(m, l) # Null
    THEN walkToIndex(m, item(m, l), index - 1)
    ELSE l

\* insertAtIndex (index, newItem)
insertAtIndex(m, l, index, newItem) ==
    IF newItem = Null THEN jassertFailed(m)
    ELSE insertNext(m, walkToIndex(m, l, index), newItem)

\* replaceNext with `oldItem->nextListItem = 0` left out.
replaceNext_keepsOldLink(m, l, newItem) ==
    IF newItem = Null THEN {jassertFailed(m)}
    ELSE IF m.next[newItem] # Null THEN {jassertFailed(m)}
    ELSE LET oldItem == item(m, l)
             m1 == setItem(m, l, newItem)
         IN  IF oldItem = Null
             THEN {Undefined(m), Undefined(m1)}
             ELSE {Returned(setItem(m1, item(m1, l), item(m1, oldItem)), oldItem)}

\* replaceNext (newItem): the set of ways the call can end.  With item == 0
\* the method stores newItem and then reads and writes through the null
\* oldItem: undefined behaviour, which may stop before or after the store,
\* or go on with whatever the read produced.
replaceNext(m, l, newItem) ==
    IF newItem = Null THEN {jassertFailed(m)}
    ELSE IF m.next[newItem] # Null THEN {jassertFailed(m)}
    ELSE LET oldItem == item(m, l)
             m1 == setItem(m, l, newItem)                   \* item = newItem
         IN  IF oldItem = Null
             THEN {Undefined(m), Undefined(m1)}
                  \cup {Undefined(setItem(m1, item(m1, l), g)) : g \in Pointers}
             ELSE LET m2 == setItem(m1, item(m1, l), item(m1, oldItem))
                      m3 == setItem(m2, oldItem, Null)
                  IN  {Returned(m3, oldItem)}

\* append that writes this handle's own item instead of getLast()'s.
append_atThisSlot(m, l, newItem) == Returned(setItem(m, l, newItem), Null)

\* append (newItem): getLast().item = newItem
append(m, l, newItem) == Returned(setItem(m, getLast(m, l), newItem), Null)

\* removeNext()
removeNext(m, l) ==
    IF item(m, l) = Null THEN Returned(m, Null)
    ELSE LET oldItem == item(m, l)
             m1 == setItem(m, oldItem, Null)         \* oldItem->nextListItem = 0
             m2 == setItem(m1, l, item(m1, item(m1, l)))
                                                     \* item = item->nextListItem
         IN  Returned(m2, oldItem)

\* remove with the `if (l != 0)` test left out: when the item is not found
\* the head of this list is removed instead.
remove_unchecked(m, l, itemToRemove) ==
    LET p == findPointerTo(m, l, itemToRemove)
    IN  [removeNext(m, IF p # Null THEN p ELSE l) EXCEPT !.ret = Null]

\* remove (item)
remove(m, l, itemToRemove) ==
    LET p == findPointerTo(m, l, itemToRemove)
    IN  IF p # Null
        THEN [removeNext(m, p) EXCEPT !.ret = Null]
        ELSE Returned(m, Null)

\* deleteAll with the two statements after `oldItem = item` swapped:
\* `delete oldItem; item = oldItem->nextListItem;` reads the freed node.
deleteAll_deleteFirst(m, l) ==
    IF item(m, l) = Null THEN Returned(m, Null)
    ELSE Undefined([m EXCEPT !.allocated = @ \ {item(m, l)}])

\* deleteAll(): while (item != 0) { oldItem = item;
\*     item = oldItem->nextListItem; delete oldItem; }
\* Reading the link of a node that no longer exists, or deleting it a
\* second time, is undefined.
RECURSIVE deleteAll(_, _)
deleteAll(m, l) ==
    IF item(m, l) = Null THEN Returned(m, Null)
    ELSE LET oldItem == item(m, l)
         IN  IF oldItem \notin m.allocated THEN Undefined(m)
             ELSE LET m1 == setItem(m, l, m.next[oldItem])
                  IN  deleteAll([m1 EXCEPT !.allocated = @ \ {oldItem}], l)

\* new ObjectType (*i): a new node object that copies i's data members; the
\* node type's copy constructor leaves the new node's link empty.
newCopy(m, c, i) ==
    [m EXCEPT !.allocated = @ \cup {c}, !.value[c] = m.value[i], !.next[c] = Null]

\* The loop of addCopyOfList with `insertPoint = &(insertPoint->item->
\* nextListItem)` left out: every copy is inserted at the same slot.
RECURSIVE copyLoop_staysPut(_, _, _)
copyLoop_staysPut(m, insertPoint, i) ==
    IF i = Null THEN Returned(m, Null)
    ELSE IF Nodes \ m.allocated = {} THEN BadAlloc(m)
    ELSE LET c == CHOOSE x \in Nodes \ m.allocated :
                      \A y \in Nodes \ m.allocated : x <= y
             r == insertNext(newCopy(m, c, i), insertPoint, c)
         IN  IF r.outcome # "ok" THEN r
             ELSE copyLoop_staysPut(r.mem, insertPoint, r.mem.next[i])

\* The loop of addCopyOfList.
RECURSIVE copyLoop(_, _, _)
copyLoop(m, insertPoint, i) ==
    IF i = Null THEN Returned(m, Null)
    ELSE IF Nodes \ m.allocated = {} THEN BadAlloc(m)
    ELSE LET c == CHOOSE x \in Nodes \ m.allocated :
                      \A y \in Nodes \ m.allocated : x <= y
             r == insertNext(newCopy(m, c, i), insertPoint, c)
         IN  IF r.outcome # "ok" THEN r
             ELSE copyLoop(r.mem, item(r.mem, insertPoint), r.mem.next[i])

\* addCopyOfList (other)
addCopyOfList(m, l, otherList) == copyLoop(m, l, item(m, otherList))

\* ------------------------------------------------------------- Appender
\* The Appender constructor without its jassert.
AppenderCtor_unchecked(m, l) == Returned([m EXCEPT !.endOfList = l], Null)

\* Appender (endOfListPointer): endOfList (&endOfListPointer), then the jassert
AppenderCtor(m, l) ==
    LET m1 == [m EXCEPT !.endOfList = l]
    IN  IF item(m1, l) # Null THEN jassertFailed(m1) ELSE Returned(m1, Null)

\* Appender::append that looks the end of the list up again instead of
\* using the cached slot: `list.getLast() = newItem`.
AppenderAppend_rescans(m, newItem) ==
    Returned([setItem(m, getLast(m, HeadSlot), newItem)
                 EXCEPT !.endOfList = newItem], Null)

\* Appender::append that writes the head of the list instead of the cached
\* slot: `list = newItem` for `*endOfList = newItem`.
AppenderAppend_atHead(m, newItem) ==
    Returned([setItem(m, HeadSlot, newItem) EXCEPT !.endOfList = newItem], Null)

\* Appender::append with `endOfList = &(newItem->nextListItem)` left out.
AppenderAppend_staysPut(m, newItem) ==
    Returned(setItem(m, m.endOfList, newItem), Null)

\* Appender::append (newItem)
AppenderAppend(m, newItem) ==
    LET m1 == setItem(m, m.endOfList, newItem)          \* *endOfList = newItem
    IN  Returned([m1 EXCEPT !.endOfList = newItem], Null)
                                          \* endOfList = &(newItem->nextListItem)

\* ------------------------------------------------------------ the caller
\* The caller's responsibility (the class never checks it): a node is never
\* linked where that would close a cycle, that is, neither into a list it
\* is already in nor behind itself.
NoCycle(m, l, n) ==
    /\ n # Null
    /\ Range(Chain(m, l)) \cap Range(ChainFrom(m, n)) = {}
    /\ l \notin Range(ChainFrom(m, n))

\* A node pointer whose jassert fails before anything is linked.
Rejected(m, n) == IF n = Null THEN TRUE ELSE m.next[n] # Null

NoCall ==
    [op |-> "none", slot |-> Null, node |-> Null, index |-> 0,
     ret |-> Null, outcome |-> "ok"]

Called(name, l, n, i, r) ==
    [op |-> name, slot |-> l, node |-> n, index |-> i,
     ret |-> r.ret, outcome |-> r.outcome]

\* The program goes on after a call only if the call returned.
Running == call.outcome = "ok"

\* The link slots the caller can hold: the handles and the live nodes' links.
LiveSlots == {HeadSlot} \cup allocated

\* The calls that link a caller's node into a list, and the node that a
\* call c made on memory m has taken out of a list (Null if none).
LinkingOps == {"insertNext", "insertAtIndex", "replaceNext", "append",
               "Appender::append"}
TakenOut(m, c) ==
    IF c.outcome # "ok" THEN Null
    ELSE IF c.op \in {"removeNext", "replaceNext"} THEN c.ret
    ELSE IF c.op = "remove" /\ c.node \in Range(Chain(m, c.slot)) THEN c.node
    ELSE Null
\* What is remembered of the calls so far, in the runs where it is recorded
\* (on): whether every node handed to a linking call had an empty link and
\* was not in head's list (clean), and, while that holds, the nodes taken
\* out and not linked in again (removed).
NotTracked == [on |-> FALSE, clean |-> TRUE, removed |-> {}]
Tracked(m, c) ==
    LET given == IF c.op \in LinkingOps
                 THEN IF c.node = Null THEN FALSE
                      ELSE /\ m.next[c.node] = Null
                           /\ c.node \notin Range(Chain(m, HeadSlot))
                 ELSE TRUE
        back == IF c.op \in LinkingOps /\ c.outcome = "ok" THEN {c.node} ELSE {}
    IN  IF ~track.on THEN track
        ELSE IF track.clean /\ given
        THEN [on |-> TRUE, clean |-> TRUE,
              removed |-> ((track.removed \ back) \cup {TakenOut(m, c)}) \ {Null}]
        ELSE [on |-> TRUE, clean |-> FALSE, removed |-> {}]

Commit(r, c) ==
    /\ head' = r.mem.head
    /\ other' = r.mem.other
    /\ nextListItem' = r.mem.next
    /\ allocated' = r.mem.allocated
    /\ value' = r.mem.value
    /\ endOfList' = r.mem.endOfList
    /\ call' = c
    /\ pre' = Mem
    /\ track' = Tracked(Mem, c)

NoAppendLog == [only |-> FALSE, log |-> <<>>]
\* What is remembered of the live Appender: whether it was built on the
\* terminal slot of head's list and nothing else has changed a link since
\* (exclusive), whether every node appended through it had an empty link
\* (fresh), and, while both hold, head's list when it was built (base), the
\* nodes appended through it (log), and the links that the same nodes leave
\* when each is appended with head.append() instead (shadow).
Links(m) == [head |-> m.head, next |-> m.next]
NoLinks == [head |-> Null, next |-> [n \in Nodes |-> Null]]
NoAppender ==
    [alive |-> FALSE, exclusive |-> FALSE, fresh |-> FALSE,
     base |-> <<>>, log |-> <<>>, shadow |-> NoLinks]
Forget(a) == [a EXCEPT !.base = <<>>, !.log = <<>>, !.shadow = NoLinks]

\* A link is changed by a call that does not go through the Appender.
Touch ==
    appender' = IF appender.alive
                THEN Forget([appender EXCEPT !.exclusive = FALSE])
                ELSE appender

\* The state after `LinkedListPointer<ObjectType> head;` and the caller's
\* nodes have been constructed.
Constructed ==
    /\ head = Null
    /\ other = Null
    /\ nextListItem = [n \in Nodes |-> Null]
    /\ allocated = CallerNodes
    /\ value = [n \in Nodes |-> IF n \in CallerNodes THEN n ELSE 0]
    /\ endOfList = Null
    /\ call = NoCall
    /\ pre = [head |-> Null, other |-> Null, next |-> [n \in Nodes |-> Null],
              allocated |-> CallerNodes,
              value |-> [n \in Nodes |-> IF n \in CallerNodes THEN n ELSE 0],
              endOfList |-> Null]
    /\ appendLog = [only |-> TRUE, log |-> <<>>]
    /\ appender = NoAppender

Init ==
    /\ Constructed
    /\ track = NotTracked

\* One call of each mutator on the handle at link slot l.
CallInsertNext(l) ==
    \E n \in allocated \cup {Null} :
        /\ Running
        /\ IF Rejected(Mem, n) THEN TRUE ELSE NoCycle(Mem, l, n)
        /\ LET r == insertNext(Mem, l, n)
           IN  Commit(r, Called("insertNext", l, n, 0, r))
        /\ appendLog' = NoAppendLog
        /\ Touch

CallInsertAtIndex(l) ==
    \E i \in -1 .. MaxIndex, n \in allocated \cup {Null} :
        /\ Running
        /\ IF Rejected(Mem, n) THEN TRUE ELSE NoCycle(Mem, l, n)
        /\ LET r == insertAtIndex(Mem, l, i, n)
           IN  Commit(r, Called("insertAtIndex", l, n, i, r))
        /\ appendLog' = NoAppendLog
        /\ Touch

CallReplaceNext(l) ==
    \E n \in allocated \cup {Null} :
        /\ Running
        /\ IF Rejected(Mem, n) THEN TRUE ELSE NoCycle(Mem, l, n)
        /\ \E r \in replaceNext(Mem, l, n) :
               Commit(r, Called("replaceNext", l, n, 0, r))
        /\ appendLog' = NoAppendLog
        /\ Touch

CallAppend(l) ==
    \E n \in allocated :
        /\ Running
        /\ NoCycle(Mem, l, n)
        /\ LET r == append(Mem, l, n)
           IN  Commit(r, Called("append", l, n, 0, r))
        /\ appendLog' = IF appendLog.only /\ l = HeadSlot
                        THEN [appendLog EXCEPT !.log = Append(@, n)]
                        ELSE NoAppendLog
        /\ Touch

CallRemoveNext(l) ==
    /\ Running
    /\ LET r == removeNext(Mem, l)
       IN  Commit(r, Called("removeNext", l, Null, 0, r))
    /\ appendLog' = NoAppendLog
    /\ Touch

CallRemove(l) ==
    \E n \in allocated :
        /\ Running
        /\ LET r == remove(Mem, l, n)
           IN  Commit(r, Called("remove", l, n, 0, r))
        /\ appendLog' = NoAppendLog
        /\ Touch

\* The mutators, called on any handle the caller can hold.
InsertNext == \E l \in LiveSlots : CallInsertNext(l)
InsertAtIndex == \E l \in LiveSlots : CallInsertAtIndex(l)
ReplaceNext == \E l \in LiveSlots : CallReplaceNext(l)
AppendNode == \E l \in LiveSlots : CallAppend(l)
RemoveNext == \E l \in LiveSlots : CallRemoveNext(l)
Remove == \E l \in LiveSlots : CallRemove(l)

Next ==
    \/ InsertNext
    \/ InsertAtIndex
    \/ ReplaceNext
    \/ AppendNode
    \/ RemoveNext
    \/ Remove

Spec == Init /\ [][Next]_vars

\* ------------------------------------------------- a list and its Appender
NewAppender ==
    \E l \in LiveSlots :
        /\ Running
        /\ LET r == AppenderCtor(Mem, l)
           IN  /\ Commit(r, Called("Appender", l, Null, 0, r))
               /\ appender' =
                    IF r.outcome = "ok" /\ l = getLast(Mem, HeadSlot)
                    THEN [alive |-> TRUE, exclusive |-> TRUE, fresh |-> TRUE,
                          base |-> Chain(Mem, HeadSlot), log |-> <<>>,
                          shadow |-> Links(Mem)]
                    ELSE [NoAppender EXCEPT !.alive = TRUE]
        /\ appendLog' = NoAppendLog

AppenderAppendNode ==
    \E n \in allocated :
        /\ Running
        /\ endOfList # Null
        /\ NoCycle(Mem, endOfList, n)
        /\ LET r == AppenderAppend(Mem, n)
           IN  /\ Commit(r, Called("Appender::append", endOfList, n, 0, r))
               /\ appender' =
                    IF appender.exclusive /\ appender.fresh
                       /\ nextListItem[n] = Null
                    THEN [appender EXCEPT
                            !.log = Append(@, n),
                            !.shadow = Links(append(
                                [Mem EXCEPT !.head = appender.shadow.head,
                                            !.next = appender.shadow.next],
                                HeadSlot, n).mem)]
                    ELSE Forget([appender EXCEPT !.fresh = FALSE])
        /\ appendLog' = NoAppendLog

\* The mutators, called through the head handle while an Appender may exist.
HeadInsertNext == CallInsertNext(HeadSlot)
HeadInsertAtIndex == CallInsertAtIndex(HeadSlot)
HeadReplaceNext == CallReplaceNext(HeadSlot)
HeadAppend == CallAppend(HeadSlot)
HeadRemoveNext == CallRemoveNext(HeadSlot)
HeadRemove == CallRemove(HeadSlot)

NextAppender ==
    \/ NewAppender
    \/ AppenderAppendNode
    \/ HeadInsertNext
    \/ HeadInsertAtIndex
    \/ HeadReplaceNext
    \/ HeadAppend
    \/ HeadRemoveNext
    \/ HeadRemove

SpecAppender == Init /\ [][NextAppender]_vars

\* The same calls, with what they were given and have taken out recorded.
InitStructure ==
    /\ Constructed
    /\ track = [NotTracked EXCEPT !.on = TRUE]

SpecStructure == InitStructure /\ [][NextAppender]_vars

\* ------------------------------------------------- deleting a list
\* The caller's responsibility: no pointer to a deleted node is kept, so no
\* link slot outside the list that is deleted points into it.
NoDangling(m, l) ==
    \A s \in ({HeadSlot} \cup m.allocated) \ ({l} \cup Range(Chain(m, l))) :
        item(m, s) \notin Range(Chain(m, l))

DeleteAll ==
    \E l \in LiveSlots :
        /\ Running
        /\ NoDangling(Mem, l)
        /\ LET r == deleteAll(Mem, l)
           IN  Commit(r, Called("deleteAll", l, Null, 0, r))
        /\ appendLog' = NoAppendLog
        /\ Touch

NextDelete ==
    \/ AppendNode
    \/ InsertNext
    \/ DeleteAll

SpecDelete == Init /\ [][NextDelete]_vars

\* ------------------------------------------------- copying another list
FillHead == CallAppend(HeadSlot)
FillOther == CallAppend(OtherSlot)

\* head.addCopyOfList (other)
AddCopyOfList ==
    /\ Running
    /\ LET r == addCopyOfList(Mem, HeadSlot, OtherSlot)
       IN  /\ r.outcome # "bad_alloc"
           /\ Commit(r, Called("addCopyOfList", HeadSlot, Null, 0, r))
    /\ appendLog' = NoAppendLog
    /\ Touch

NextCopy ==
    \/ FillHead
    \/ FillOther
    \/ AddCopyOfList

SpecCopy == Init /\ [][NextCopy]_vars

\* ------------------------------------------------------ reading a list
\* A call of a const method, or of one that only returns a slot: no link is
\* written, the result is recorded.
Query(name, l, n, i, result) ==
    /\ Running
    /\ Commit(Returned(Mem, result), Called(name, l, n, i, Returned(Mem, result)))
    /\ UNCHANGED <<appendLog, appender>>

\* The indexes passed to operator[].
QueryIndexes == -1 .. (MaxIndex + NumNodes)
\* A C++ bool, as the integer it converts to.
Bool(b) == IF b THEN 1 ELSE 0

Get == \E l \in LiveSlots : Query("get", l, Null, 0, item(Mem, l))
Size == \E l \in LiveSlots : Query("size", l, Null, 0, size(Mem, l))
GetLast == \E l \in LiveSlots : Query("getLast", l, Null, 0, getLast(Mem, l))
At ==
    \E l \in LiveSlots, i \in QueryIndexes :
        Query("operator[]", l, Null, i, at(Mem, l, i))
Contains ==
    \E l \in LiveSlots, n \in allocated \cup {Null} :
        Query("contains", l, n, 0, Bool(contains(Mem, l, n)))
FindPointerTo ==
    \E l \in LiveSlots, n \in allocated \cup {Null} :
        Query("findPointerTo", l, n, 0, findPointerTo(Mem, l, n))

NextQuery ==
    \/ AppendNode
    \/ InsertNext
    \/ Remove
    \/ Get
    \/ Size
    \/ GetLast
    \/ At
    \/ Contains
    \/ FindPointerTo

SpecQuery == Init /\ [][NextQuery]_vars

\* ------------------------------------------------------------- the claims
IndexOf(s, x) == CHOOSE k \in 1 .. Len(s) : s[k] = x
Without(s, x) == SelectSeq(s, LAMBDA y : y # x)
\* l is a link slot of head's list: the head itself or the link of a node in it.
InList(m, l) == l = HeadSlot \/ l \in Range(Chain(m, HeadSlot))
\* The position of that slot: 0 for the head, k for the link of the k-th node.
PosOf(m, l) == IF l = HeadSlot THEN 0 ELSE IndexOf(Chain(m, HeadSlot), l)

\* C1: removeNext on a handle that references node N returns N, leaves the
\* handle referencing what followed N (the old chain minus its first node, so
\* size() drops by exactly 1) and leaves N's link empty; on an empty handle it
\* returns null and changes no link.
C1_RemoveNextDetachesHead ==
    call.op = "removeNext" =>
        LET old == Chain(pre, call.slot)
        IN  IF old = <<>>
            THEN call.ret = Null /\ Links(Mem) = Links(pre)
            ELSE /\ call.ret = old[1]
                 /\ Chain(Mem, call.slot) = Tail(old)
                 /\ size(Mem, call.slot) = size(pre, call.slot) - 1
                 /\ nextListItem[old[1]] = Null

\* C2: insertNext(node) on the link slot at position k of head's list, with a
\* node whose link is empty and which is not in the list, puts node at
\* position k, keeps the nodes before it and the nodes after it in their
\* order, and makes size() grow by exactly 1.
C2_InsertNextSplices ==
    (/\ call.op = "insertNext"
     /\ InList(pre, call.slot)
     /\ call.node # Null
     /\ call.node \notin Range(Chain(pre, HeadSlot))
     /\ pre.next[call.node] = Null)
    => LET old == Chain(pre, HeadSlot)
           k == PosOf(pre, call.slot)
       IN  /\ call.outcome = "ok"
           /\ Chain(Mem, HeadSlot) =
                SubSeq(old, 1, k) \o <<call.node>> \o SubSeq(old, k + 1, Len(old))
           /\ size(Mem, HeadSlot) = size(pre, HeadSlot) + 1

\* C2 witness: a node was inserted in the middle of a list of two or more.
C2_Witness ==
    /\ call.op = "insertNext"
    /\ call.outcome = "ok"
    /\ call.slot \in Range(Chain(pre, HeadSlot))
    /\ call.node \notin Range(Chain(pre, HeadSlot))
    /\ PosOf(pre, call.slot) < Len(Chain(pre, HeadSlot))
    /\ Chain(Mem, HeadSlot)[PosOf(pre, call.slot) + 1] = call.node

\* C3: remove(node), for a node present in the chain, yields the chain with
\* exactly that node taken out and every other node in its original order;
\* afterwards contains(node) is false and node's link is empty.
C3_RemoveTakesOutOneNode ==
    (/\ call.op = "remove"
     /\ call.node \in Range(Chain(pre, call.slot)))
    => /\ Chain(Mem, call.slot) = Without(Chain(pre, call.slot), call.node)
       /\ ~contains(Mem, call.slot, call.node)
       /\ nextListItem[call.node] = Null

\* C4: insertNext(node) on a link slot of the list, immediately followed by
\* removeNext on the same slot, leaves the list with the same nodes in the
\* same order as before the insertNext, and removeNext returns that node.
C4_InsertThenRemoveRoundTrip ==
    [][(/\ call.op = "insertNext"
        /\ call.outcome = "ok"
        /\ InList(pre, call.slot)
        /\ call.node \notin Range(Chain(pre, HeadSlot))
        /\ call'.op = "removeNext"
        /\ call'.slot = call.slot)
       => /\ call'.ret = call.node
          /\ Chain(Mem, HeadSlot)' = Chain(pre, HeadSlot)]_vars

\* C6: while the list has been built from the empty head by append calls
\* alone, size() is the number of appends and the nodes are reachable in the
\* order they were appended.
C6_SizeCountsAppends ==
    appendLog.only =>
        /\ size(Mem, HeadSlot) = Len(appendLog.log)
        /\ Chain(Mem, HeadSlot) = appendLog.log

\* C6 witness: three appends and nothing else.
C6_Witness ==
    /\ appendLog.only
    /\ Len(appendLog.log) = 3
    /\ call.op = "append"

\* C8: replaceNext(node) on a handle that references old node O, with node's
\* link empty: the handle references node, node's link references what O's
\* did (the rest of the chain and size() are unchanged), O's link is empty
\* and O is returned.
C8_ReplaceNextSwapsHead ==
    (/\ call.op = "replaceNext"
     /\ item(pre, call.slot) # Null
     /\ call.node # Null
     /\ call.node \notin Range(Chain(pre, call.slot))
     /\ pre.next[call.node] = Null)
    => LET old == Chain(pre, call.slot)
       IN  /\ call.outcome = "ok"
           /\ call.ret = old[1]
           /\ item(Mem, call.slot) = call.node
           /\ nextListItem[call.node] = pre.next[old[1]]
           /\ Chain(Mem, call.slot) = <<call.node>> \o Tail(old)
           /\ size(Mem, call.slot) = size(pre, call.slot)
           /\ nextListItem[old[1]] = Null

\* C8 witness: the first node of a head list of two or more was replaced.
C8_Witness ==
    /\ call.op = "replaceNext"
    /\ call.outcome = "ok"
    /\ call.slot = HeadSlot
    /\ Len(Chain(pre, HeadSlot)) >= 2
    /\ head = call.node

\* C9: replaceNext on an empty handle is signalled by an assertion, before the
\* handle or any node is modified.
C9_ReplaceNextOnEmptyAsserts ==
    (/\ call.op = "replaceNext"
     /\ item(pre, call.slot) = Null
     /\ call.node # Null
     /\ pre.next[call.node] = Null)
    => /\ call.outcome = "asserted"
       /\ Links(Mem) = Links(pre)

\* C5: appending k distinct empty-link nodes through an Appender built on
\* the terminal slot of an n-node list, with no other mutation in between,
\* gives a list of length n+k, in the order appended, node for node the list
\* that k calls of append on the head of the same starting list give.
C5_AppenderEqualsAppend ==
    (appender.alive /\ appender.exclusive /\ appender.fresh) =>
        /\ Chain(Mem, HeadSlot) = appender.base \o appender.log
        /\ size(Mem, HeadSlot) = Len(appender.base) + Len(appender.log)
        /\ Links(Mem) = appender.shadow

\* C5 witness: two nodes appended through an Appender built on a list of one.
C5_Witness ==
    /\ appender.alive /\ appender.exclusive /\ appender.fresh
    /\ call.op = "Appender::append"
    /\ Len(appender.base) >= 1
    /\ Len(appender.log) >= 2

\* C7: addCopyOfList on a chain of m nodes with a source of n nodes gives the
\* m nodes in their order followed by the n copies in the source's order.
C7_CopiesComeAfter ==
    (call.op = "addCopyOfList" /\ call.outcome = "ok") =>
        LET old == Chain(pre, HeadSlot)
            src == Chain(pre, OtherSlot)
            now == Chain(Mem, HeadSlot)
        IN  /\ Len(now) = Len(old) + Len(src)
            /\ SubSeq(now, 1, Len(old)) = old
            /\ \A k \in 1 .. Len(src) :
                   /\ now[Len(old) + k] \notin pre.allocated
                   /\ value[now[Len(old) + k]] = pre.value[src[k]]

AssertingOps == {"insertNext", "insertAtIndex", "replaceNext"}
\* The last call was handed a node whose own link field is not empty.
GivenLinkedNode ==
    IF call.node = Null THEN FALSE ELSE pre.next[call.node] # Null

\* C10: every operation that links a caller's node into a chain (insertNext,
\* insertAtIndex, replaceNext, append, Appender::append) signals an assertion
\* when the node's own link field is not empty.
C10_EveryLinkingOpAsserts ==
    (call.op \in LinkingOps /\ GivenLinkedNode) => call.outcome = "asserted"

\* C10 as amended: insertNext, insertAtIndex and replaceNext signal an
\* assertion for such a node; append and Appender::append check nothing:
\* they return normally with the node linked in and the node's own link as
\* it was.
C10_OnlyInsertAndReplaceAssert ==
    /\ (call.op \in AssertingOps /\ GivenLinkedNode) =>
           call.outcome = "asserted"
    /\ (call.op \in LinkingOps \ AssertingOps /\ GivenLinkedNode) =>
           /\ call.outcome = "ok"
           /\ call.node \in Range(Chain(Mem, call.slot))
           /\ nextListItem[call.node] = pre.next[call.node]

\* C10 witness: insertAtIndex was handed a node with a non-empty link.
C10_Witness ==
    /\ call.op = "insertAtIndex"
    /\ GivenLinkedNode
    /\ call.outcome = "asserted"

\* C11: operator[] clamps to the end: on a chain of length n and for any
\* index >= 0 it returns the link slot at position min(index, n), so for
\* index >= n the terminal empty slot that getLast() returns, on which size()
\* is 0 (also on an empty handle); it never fails and modifies no link.
C11_IndexClampsToEnd ==
    (call.op = "operator[]" /\ call.index >= 0) =>
        LET ch == Chain(pre, call.slot)
            k == IF call.index <= Len(ch) THEN call.index ELSE Len(ch)
        IN  /\ call.outcome = "ok"
            /\ call.ret = IF k = 0 THEN call.slot ELSE ch[k]
            /\ call.index >= Len(ch) =>
                   /\ call.ret = getLast(pre, call.slot)
                   /\ item(Mem, call.ret) = Null
                   /\ size(Mem, call.ret) = 0
            /\ Links(Mem) = Links(pre)

\* C11 witness: an index past the end of a list of two gave the link slot of
\* its last node.
C11_Witness ==
    /\ call.op = "operator[]"
    /\ Len(Chain(pre, call.slot)) = 2
    /\ call.index > 2
    /\ call.ret = Chain(pre, call.slot)[2]

\* What operator[] (index) followed by insertNext (node) on the slot it
\* returns makes of the memory before the last call.
AtThenInsertNext == insertNext(pre, at(pre, call.slot, call.index), call.node)

\* C12: insertAtIndex(index, node) leaves the chain in the same final state
\* as operator[](index) followed by insertNext(node) there, for every chain
\* and every integer index: in range, past the end, and negative.
C12_InsertAtIndexIsAtThenInsert ==
    call.op = "insertAtIndex" =>
        /\ call.outcome = AtThenInsertNext.outcome
        /\ Links(Mem) = Links(AtThenInsertNext.mem)

\* C12 as amended: the two agree for every index >= 0, in range and past the
\* end; for a negative index insertAtIndex walks to the end of the list and
\* inserts the node there, while operator[] returns the handle itself.
C12_InsertAtIndexFromZero ==
    call.op = "insertAtIndex" =>
        IF call.index >= 0
        THEN /\ call.outcome = AtThenInsertNext.outcome
             /\ Links(Mem) = Links(AtThenInsertNext.mem)
        ELSE /\ at(pre, call.slot, call.index) = call.slot
             /\ call.outcome =
                    insertNext(pre, getLast(pre, call.slot), call.node).outcome
             /\ Links(Mem) =
                    Links(insertNext(pre, getLast(pre, call.slot), call.node).mem)

\* C12 witness: a node was inserted at index 1 of a list of two or more.
C12_Witness ==
    /\ call.op = "insertAtIndex"
    /\ call.outcome = "ok"
    /\ call.index = 1
    /\ Len(Chain(pre, call.slot)) >= 2
    /\ Chain(Mem, call.slot)[2] = call.node

\* C13: deleteAll on a list of n nodes frees each of the n nodes exactly
\* once and no other node, reads no node after freeing it, and leaves the
\* handle empty.
C13_DeleteAllFreesTheList ==
    call.op = "deleteAll" =>
        /\ call.outcome = "ok"
        /\ pre.allocated \ allocated = Range(Chain(pre, call.slot))
        /\ Cardinality(pre.allocated \ allocated) = Len(Chain(pre, call.slot))
        /\ allocated \subseteq pre.allocated
        /\ item(Mem, call.slot) = Null

\* C13 witness: a list of two nodes hanging off a third node was deleted.
C13_Witness ==
    /\ call.op = "deleteAll"
    /\ call.slot \in Nodes
    /\ Len(Chain(pre, call.slot)) = 2
    /\ Cardinality(allocated) = NumNodes - 2

C15_RemoveAbsentAndEmptyQueries ==
    /\ (call.op = "remove" /\ call.node \notin Range(Chain(pre, call.slot))) =>
           /\ call.outcome = "ok"
           /\ Mem = pre
    /\ (call.op \in {"size", "get", "contains"} /\ item(pre, call.slot) = Null) =>
           /\ call.outcome = "ok"
           /\ call.ret = 0
           /\ Mem = pre

\* C15 witness: remove was called on a list of two nodes with a third node.
C15_Witness ==
    /\ call.op = "remove"
    /\ Len(Chain(pre, call.slot)) = 2
    /\ call.node \notin Range(Chain(pre, call.slot))
    /\ Len(Chain(Mem, call.slot)) = 2

\* C16: constructing an Appender over a handle that references a node is
\* signalled by an assertion; constructing it over an empty slot is accepted,
\* and the Appender then holds that slot.
C16_AppenderNeedsEmptySlot ==
    call.op = "Appender" =>
        IF item(pre, call.slot) # Null
        THEN call.outcome = "asserted"
        ELSE /\ call.outcome = "ok"
             /\ endOfList = call.slot
             /\ Links(Mem) = Links(pre)

\* C16 witness: an Appender was constructed over the head of a list of two.
C16_Witness ==
    /\ call.op = "Appender"
    /\ call.slot = HeadSlot
    /\ Len(Chain(pre, HeadSlot)) = 2
    /\ call.outcome = "asserted"

\* The last call went through the head handle while the Appender's cached
\* slot was the terminal slot of head's list ...
TailWasCached ==
    /\ call.outcome = "ok"
    /\ call.slot = HeadSlot
    /\ pre.endOfList # Null
    /\ pre.endOfList = getLast(pre, HeadSlot)
\* ... and appended a node there,
HeadAppendedBehindAppender == TailWasCached /\ call.op = "append"
\* ... or took out the node whose link is the cached slot.
HeadRemovedAppendersNode ==
    /\ TailWasCached
    /\ \/ call.op = "removeNext" /\ call.ret = pre.endOfList
       \/ call.op = "remove" /\ call.node = pre.endOfList

\* C17: with an Appender alive on the tail of head's list, head.append (X)
\* followed by Appender::append (Y) returns normally and leaves X out of
\* head's chain (overwritten by Y); head.remove or head.removeNext of the
\* node Z the Appender appended last followed by Appender::append (Y), Y a
\* node outside the chain, returns normally and leaves Y out of head's
\* chain, linked only from the detached Z.
C17_AppenderAliasingCorrupts ==
    [][ /\ (HeadAppendedBehindAppender /\ call'.op = "Appender::append") =>
            /\ call'.outcome = "ok"
            /\ call.node \notin Range(Chain(Mem, HeadSlot))'
            /\ Range(Chain(Mem, HeadSlot))' # Range(Chain(Mem, HeadSlot)) \cup {call'.node}
        /\ (/\ HeadRemovedAppendersNode
            /\ call'.op = "Appender::append"
            /\ call'.node \notin Range(Chain(Mem, HeadSlot))) =>
            /\ call'.outcome = "ok"
            /\ call'.node \notin Range(Chain(Mem, HeadSlot))'
            /\ nextListItem'[endOfList] = call'.node
            /\ endOfList \notin Range(Chain(Mem, HeadSlot))'
      ]_vars

\* C17 witness: Appender::append wrote over a node of head's list, which is
\* no longer in head's chain, and returned normally.
C17_Witness ==
    /\ call.op = "Appender::append"
    /\ call.outcome = "ok"
    /\ InList(pre, pre.endOfList)
    /\ item(pre, pre.endOfList) # Null
    /\ item(pre, pre.endOfList) \in Range(Chain(pre, HeadSlot))
    /\ item(pre, pre.endOfList) \notin Range(Chain(Mem, HeadSlot))

\* C18: starting from an empty head, after any sequence of insertNext,
\* insertAtIndex, replaceNext, append, Appender::append, removeNext and
\* remove in which every inserted node has an empty link and is not in the
\* chain, the chain from the head is acyclic and holds no node twice, and
\* every node removed or replaced out and not re-inserted has an empty link.
C18_StructureIsKept ==
    (track.on /\ track.clean) =>
        /\ Len(Chain(Mem, HeadSlot)) <= Cardinality(Nodes)
        /\ Cardinality(Range(Chain(Mem, HeadSlot))) = Len(Chain(Mem, HeadSlot))
        /\ \A n \in track.removed : nextListItem[n] = Null

\* C19: while the list is changed only through the Appender and every
\* appended node has an empty link, after construction and after every
\* Appender::append the cached slot references no node and is the terminal
\* slot of the list (the one head.getLast() returns): the link of the node
\* appended last, one position further for each append.
C19_AppenderCursorIsTheTail ==
    (appender.alive /\ appender.exclusive /\ appender.fresh) =>
        /\ item(Mem, endOfList) = Null
        /\ endOfList = getLast(Mem, HeadSlot)
        /\ InList(Mem, endOfList)
        /\ PosOf(Mem, endOfList) = Len(appender.base) + Len(appender.log)
        /\ appender.log # <<>> => endOfList = appender.log[Len(appender.log)]

\* C19 witness: the cursor after the second append through an Appender built
\* on a list of one node.
C19_Witness ==
    /\ appender.alive /\ appender.exclusive /\ appender.fresh
    /\ call.op = "Appender::append"
    /\ Len(appender.base) = 1
    /\ Len(appender.log) = 2
    /\ endOfList = call.node
    /\ PosOf(Mem, endOfList) = 3

\* C20: contains (node) is true exactly when that node is reached from the
\* handle by following links; findPointerTo (node) returns a link slot of
\* the list whose item is the node exactly when contains (node) is true, and
\* null otherwise; neither call changes a link.
C20_ContainsAndFindPointerTo ==
    /\ call.op = "contains" =>
           /\ call.outcome = "ok"
           /\ call.ret = 1 <=> call.node \in Range(Chain(pre, call.slot))
           /\ call.ret \in {0, 1}
           /\ Mem = pre
    /\ call.op = "findPointerTo" =>
           /\ call.outcome = "ok"
           /\ IF contains(pre, call.slot, call.node)
              THEN /\ call.ret # Null
                   /\ call.ret \in {call.slot} \cup Range(Chain(pre, call.slot))
                   /\ item(pre, call.ret) = call.node
              ELSE call.ret = Null
           /\ contains(pre, call.slot, call.node)
                  <=> call.node \in Range(Chain(pre, call.slot))
           /\ Mem = pre

\* C20 witness: findPointerTo found the second node of a list of two or more
\* in the link of the first.
C20_Witness ==
    /\ call.op = "findPointerTo"
    /\ Len(Chain(pre, call.slot)) >= 2
    /\ call.node = Chain(pre, call.slot)[2]
    /\ call.ret = Chain(pre, call.slot)[1]

====
